---- MODULE Spec2Model ----
(***************************************************************************)
(* Model of src/index.ts: the ownership-filtered recursive walk over a     *)
(* remote drive (processFolder), the unconditional subtree copy            *)
(* (copyFolderContents), copyFile and the top-level driver main.           *)
(*                                                                         *)
(* The program is single threaded and awaits every store call, so a run    *)
(* is a sequence of store calls.  One action of the model is one store     *)
(* call together with all the local control flow that follows it up to     *)
(* the next store call (loop advance, recursive calls, returns).           *)
(***************************************************************************)
EXTENDS Integers, Sequences, FiniteSets, TLC

VARIABLES store, target, pageSize, status, stack, calls, invs, fails, out

vars == <<store, target, pageSize, status, stack, calls, invs, fails, out>>

(***************************************************************************)
(* Bounds of the model.                                                    *)
(***************************************************************************)
MaxInit == 2        \* entries below the root in a generated initial store
MaxFail == 1        \* store calls that may fail in one run
MaxPageSize == 2    \* the store returns pages of 1..MaxPageSize entries

(***************************************************************************)
(* The remote store.  store[i] is the entry with id i; id 1 is the root    *)
(* folder whose id the operator types in.                                  *)
(***************************************************************************)
FOLDER_MIME == "application/vnd.google-apps.folder"

FILE_MIME == "text/plain"

Alice == "alice@x.com"

Bob == "bob@x.com"

BobUpper == "Bob@x.com"

\* identity of the authorised account: the store makes it the owner of
\* whatever the run creates
AuthUser == Alice

RootId == 1

Targets == {Bob, Alice}

OwnerLists == {<<Alice>>, <<Bob>>, <<Alice, Bob>>, <<BobUpper>>}

RootOwnerLists == {<<>>, <<Alice>>}

InitNames == <<"R", "A", "f1", "g1", "B">>

Entry(n, m, p, o) == [name |-> n, mimeType |-> m, parent |-> p, owners |-> o]

IsFolder(e) == e.mimeType = FOLDER_MIME

\* a store is well formed when every entry but the root lies in a folder
\* with a smaller id: a finite tree rooted at RootId
WellFormed(s) ==
    /\ Len(s) >= 1
    /\ s[RootId].parent = 0
    /\ IsFolder(s[RootId])
    /\ \A i \in 2..Len(s) :
          /\ s[i].parent \in 1..(i - 1)
          /\ IsFolder(s[s[i].parent])

GenEntries(s) ==
    { Entry(InitNames[(Len(s) % Len(InitNames)) + 1], m, p, o) :
        m \in {FOLDER_MIME, FILE_MIME},
        p \in { q \in 1..Len(s) : IsFolder(s[q]) },
        o \in OwnerLists }

RECURSIVE StoresOfSize(_)
StoresOfSize(n) ==
    IF n = 0
    THEN { << Entry("R", FOLDER_MIME, 0, o) >> : o \in RootOwnerLists }
    ELSE UNION { { Append(s, e) : e \in GenEntries(s) } : s \in StoresOfSize(n - 1) }

GenStores == UNION { StoresOfSize(n) : n \in 0..MaxInit }

\* R(alice) contains folder A(bob) and file g1(alice); A contains f1(bob)
ScenarioStore ==
    << Entry("R", FOLDER_MIME, 0, <<Alice>>),
       Entry("A", FOLDER_MIME, 1, <<Bob>>),
       Entry("f1", FILE_MIME, 2, <<Bob>>),
       Entry("g1", FILE_MIME, 1, <<Alice>>) >>

\* three levels of folders owned by bob, a file at the bottom and a file
\* beside the top folder
DeepStore ==
    << Entry("R", FOLDER_MIME, 0, <<Alice>>),
       Entry("A", FOLDER_MIME, 1, <<Bob>>),
       Entry("B", FOLDER_MIME, 2, <<Alice, Bob>>),
       Entry("f1", FILE_MIME, 3, <<Alice>>),
       Entry("g1", FILE_MIME, 1, <<Bob>>) >>

\* an owned folder with three children of which the middle one is a folder
WideStore ==
    << Entry("R", FOLDER_MIME, 0, <<Alice>>),
       Entry("A", FOLDER_MIME, 1, <<Bob>>),
       Entry("f1", FILE_MIME, 2, <<Bob>>),
       Entry("B", FOLDER_MIME, 2, <<Alice>>),
       Entry("g1", FILE_MIME, 2, <<Alice, Bob>>) >>

NamedStores == {ScenarioStore, DeepStore, WideStore}

InitStores == GenStores \cup NamedStores

(***************************************************************************)
(* The store's four capabilities.                                          *)
(***************************************************************************)
RECURSIVE SeqOfSet(_)
SeqOfSet(S) ==
    IF S = {} THEN <<>>
    ELSE LET m == CHOOSE x \in S : \A y \in S : x <= y
         IN <<m>> \o SeqOfSet(S \ {m})

\* ids of the children a folder had when the store held `snap` entries,
\* in the store's order
ChildIds(s, folderId, snap) ==
    SeqOfSet({ i \in 1..snap : s[i].parent = folderId })

FileInfo(s, i) ==
    [id |-> i, name |-> s[i].name, mimeType |-> s[i].mimeType, owners |-> s[i].owners]

Min(a, b) == IF a < b THEN a ELSE b

\* the absent page token (undefined)
NoToken == [page |-> 0, snap |-> 0]

\* drive.files.list: the page the request asks for.  A request without a
\* token opens a listing of the children the folder has at that moment and
\* returns its first page; the continuation token handed out with a page
\* names the listing and the next page, and is absent on the last page.
ListPage(s, folderId, pageToken, ps) ==
    LET snap == IF pageToken = NoToken THEN Len(s) ELSE pageToken.snap
        page == IF pageToken = NoToken THEN 1 ELSE pageToken.page
        ids  == ChildIds(s, folderId, snap)
        lo   == (page - 1) * ps + 1
        hi   == Min(page * ps, Len(ids))
    IN [files |-> [k \in 1..(IF hi >= lo THEN hi - lo + 1 ELSE 0) |-> FileInfo(s, ids[lo + k - 1])],
        nextPageToken |-> IF page * ps < Len(ids)
                          THEN [page |-> page + 1, snap |-> snap]
                          ELSE NoToken]

\* drive.files.create with a folder mime type
CreateFolderEntry(name, parentId) == Entry(name, FOLDER_MIME, parentId, <<AuthUser>>)

\* drive.files.copy without requestBody.name: the store picks the name
CopyItemEntry_DefaultName(s, fileId, name, parentId) ==
    Entry("Copy of", s[fileId].mimeType, parentId, <<AuthUser>>)

\* drive.files.copy
CopyItemEntry(s, fileId, name, parentId) == Entry(name, s[fileId].mimeType, parentId, <<AuthUser>>)

(***************************************************************************)
(* The call stack.  A frame is one activation of processFolder or of       *)
(* copyFolderContents: its arguments, its pageToken local, the items of    *)
(* the current page that the for loop has not finished, the calls the for  *)
(* body still has to make for the item at hand (cont) with the folder      *)
(* created for it (newFolder), and where in the body it stands:            *)
(*   "list"   about to call drive.files.list                               *)
(*   "item"   at the top of the for body for Head(files)                   *)
(*   "next"   past the store call made for Head(files)                     *)
(*   "await"  awaiting the return of a recursive call                      *)
(***************************************************************************)
Frame(fn, act, folderId, destId) ==
    [fn |-> fn, act |-> act, folder |-> folderId, dest |-> destId,
     pageToken |-> NoToken, files |-> <<>>, phase |-> "list",
     cont |-> <<>>, newFolder |-> 0]

\* an activation as recorded in invs: act is its index there, caller the
\* activation that called it (0 for main)
Invocation(fn, folderId, destId, caller) ==
    [fn |-> fn, folder |-> folderId, dest |-> destId, caller |-> caller]

Top(stk) == stk[Len(stk)]

Pop(stk) == SubSeq(stk, 1, Len(stk) - 1)

SetTop(stk, f) == Append(Pop(stk), f)

\* an ownership test that accepts every item that has an owner
IsOwnedByTarget_AnyOwner(file, targetUserEmail) ==
    \E k \in 1..Len(file.owners) : TRUE

LowerCase(identity) == IF identity = BobUpper THEN Bob ELSE identity

\* an ownership test that ignores the case of the addresses
IsOwnedByTarget_IgnoreCase(file, targetUserEmail) ==
    \E k \in 1..Len(file.owners) : LowerCase(file.owners[k]) = LowerCase(targetUserEmail)

\* file.owners.some(owner => owner.emailAddress === targetUserEmail)
IsOwnedByTarget(file, targetUserEmail) ==
    \E k \in 1..Len(file.owners) : file.owners[k] = targetUserEmail

\* a loop that stops after the first page
\* a do-while whose condition never ends the loop
MorePages_Always(pageToken) == TRUE

MorePages_Never(pageToken) == FALSE

\* while (pageToken)
MorePages(pageToken) == pageToken # NoToken

\* line 116 written as an else branch of line 90: owned folders are
\* replicated but not walked into
ProcessFolderCalls_ElseIf(isOwnedByTarget, isFolder) ==
    IF isOwnedByTarget /\ isFolder THEN <<"copyFolderContents">>
    ELSE IF isFolder THEN <<"processFolder">> ELSE <<>>

\* the walk into an owned folder made before its contents are copied
ProcessFolderCalls_WalkFirst(isOwnedByTarget, isFolder) ==
    (IF isFolder THEN <<"processFolder">> ELSE <<>>)
    \o (IF isOwnedByTarget /\ isFolder THEN <<"copyFolderContents">> ELSE <<>>)

\* the recursive calls the for body of processFolder makes for an item,
\* in program order: copyFolderContents at line 108 inside the owned-folder
\* branch, then processFolder at line 117 for every folder
ProcessFolderCalls(isOwnedByTarget, isFolder) ==
    (IF isOwnedByTarget /\ isFolder THEN <<"copyFolderContents">> ELSE <<>>)
    \o (IF isFolder THEN <<"processFolder">> ELSE <<>>)

\* a subtree copy that recreates sub-folders but does not copy into them
CopyFolderContentsCalls_Shallow(isFolder) == <<>>

\* the recursive call the for body of copyFolderContents makes (line 154)
CopyFolderContentsCalls(isFolder) ==
    IF isFolder THEN <<"copyFolderContents">> ELSE <<>>

\* the walker descending into the folder it has just created instead of
\* the folder it replicated
CallFn_IntoNewFolder(stk, iv, fn) ==
    LET caller == Top(stk)
        file   == Head(caller.files)
        destId == IF fn = "copyFolderContents" THEN caller.newFolder ELSE 0
        folderId == IF fn = "processFolder" /\ IsOwnedByTarget(file, target)
                    THEN caller.newFolder ELSE file.id
    IN [stack |-> Append(stk, Frame(fn, Len(iv) + 1, folderId, destId)),
        invs  |-> Append(iv, Invocation(fn, folderId, destId, caller.act))]

\* a call of processFolder or copyFolderContents by the top activation
\* for its head item: a new activation, recorded in invs
CallFn(stk, iv, fn) ==
    LET caller == Top(stk)
        file   == Head(caller.files)
        destId == IF fn = "copyFolderContents" THEN caller.newFolder ELSE 0
    IN [stack |-> Append(stk, Frame(fn, Len(iv) + 1, file.id, destId)),
        invs  |-> Append(iv, Invocation(fn, file.id, destId, caller.act))]

\* Run the program from the point the stack describes up to its next store
\* call: advance the for loops, test the while conditions, make the
\* recursive calls and return from finished activations.
RECURSIVE Settle(_, _, _)
Settle(stk, iv, tgt) ==
    IF stk = <<>> THEN [stack |-> stk, invs |-> iv]
    ELSE LET top == Top(stk) IN
      IF top.phase = "item" /\ top.files = <<>> THEN
          \* end of the for loop
          IF MorePages(top.pageToken)
          THEN [stack |-> SetTop(stk, [top EXCEPT !.phase = "list"]), invs |-> iv]
          ELSE \* the activation returns to its caller
               IF Len(stk) = 1 THEN [stack |-> <<>>, invs |-> iv]
               ELSE Settle(SetTop(Pop(stk), [Top(Pop(stk)) EXCEPT !.phase = "next"]), iv, tgt)
      ELSE IF top.phase = "item" /\ top.fn = "processFolder"
              /\ ~IsOwnedByTarget(Head(top.files), tgt) THEN
          \* lines 90 and 116 for an item that is not owned: no store call
          Settle(SetTop(stk, [top EXCEPT
                     !.phase = "next",
                     !.cont = ProcessFolderCalls(FALSE, Head(top.files).mimeType = FOLDER_MIME)]),
                 iv, tgt)
      ELSE IF top.phase = "next" THEN
          IF top.cont = <<>>
          THEN Settle(SetTop(stk, [top EXCEPT !.phase = "item", !.files = Tail(@)]), iv, tgt)
          ELSE CallFn(SetTop(stk, [top EXCEPT !.phase = "await", !.cont = Tail(@)]),
                      iv, Head(top.cont))
      ELSE [stack |-> stk, invs |-> iv]

(***************************************************************************)
(* The record of a store call, kept in calls in the order of issue:        *)
(* op is "get", "list", "create" or "copy"; by and act name the function   *)
(* and the activation that issued it; item is the listed child the call    *)
(* is made for; parent and name are the request's parents[0] and name;     *)
(* pageToken and nextPageToken are the request's and the response's        *)
(* tokens; ok tells whether the call succeeded and id is the new entry.    *)
(***************************************************************************)
Call(op, by, act, folderId, item, parentId, name, pageToken, nextPageToken, files, ok, id) ==
    [op |-> op, by |-> by, act |-> act, folder |-> folderId, item |-> item,
     parent |-> parentId, name |-> name, pageToken |-> pageToken,
     nextPageToken |-> nextPageToken, files |-> files, ok |-> ok, id |-> id]

Init ==
    /\ store \in InitStores
    /\ target \in Targets
    /\ pageSize \in 1..MaxPageSize
    /\ status = "init"
    /\ stack = <<>>
    /\ calls = <<>>
    /\ invs = <<>>
    /\ fails = 0
    /\ out = <<>>

\* an error reaches the catch of main (lines 53-55): every activation is
\* abandoned and the error is logged
Throw ==
    /\ stack' = <<>>
    /\ status' = "failed"
    /\ out' = Append(out, "error")
    /\ UNCHANGED invs

\* the program runs on from stack stk; when processFolder(root) returns,
\* main logs its success message (line 52)
Resume(stk, iv, o) ==
    LET r == Settle(stk, iv, target) IN
    /\ stack' = r.stack
    /\ invs' = r.invs
    /\ status' = IF r.stack = <<>> THEN "done" ELSE "running"
    /\ out' = IF r.stack = <<>> THEN Append(o, "success") ELSE o

\* main, line 22: authorize() throws
AuthorizeFail ==
    /\ status = "init"
    /\ Throw
    /\ UNCHANGED <<store, target, pageSize, calls, fails>>

\* main, lines 36-39: drive.files.get throws
GetRootFail ==
    /\ status = "init"
    /\ fails < MaxFail
    /\ fails' = fails + 1
    /\ calls' = Append(calls, Call("get", "main", 0, RootId, 0, 0, "", NoToken, NoToken, <<>>, FALSE, 0))
    /\ Throw
    /\ UNCHANGED <<store, target, pageSize>>

\* main without the owners check of lines 41-43
StartWalk_NoOwnerCheck ==
    /\ status = "init"
    /\ calls' = Append(calls, Call("get", "main", 0, RootId, 0, 0, "", NoToken, NoToken, <<>>, TRUE, 0))
    /\ Resume(<<Frame("processFolder", Len(invs) + 1, RootId, 0)>>,
              Append(invs, Invocation("processFolder", RootId, 0, 0)),
              Append(out, "root-owner"))
    /\ UNCHANGED <<store, target, pageSize, fails>>

\* main, lines 36-50: the root's owners are fetched; without an owner the
\* run throws, otherwise processFolder(rootFolderId) is called
StartWalk ==
    /\ status = "init"
    /\ calls' = Append(calls, Call("get", "main", 0, RootId, 0, 0, "", NoToken, NoToken, <<>>, TRUE, 0))
    /\ IF Len(store[RootId].owners) = 0
       THEN Throw
       ELSE Resume(<<Frame("processFolder", Len(invs) + 1, RootId, 0)>>,
                   Append(invs, Invocation("processFolder", RootId, 0, 0)),
                   Append(out, "root-owner"))
    /\ UNCHANGED <<store, target, pageSize, fails>>

\* lines 76-84 and 133-140: one page of the folder is fetched and the for
\* loop starts on it
ListOk(fn) ==
    /\ status = "running"
    /\ LET top  == Top(stack)
           resp == ListPage(store, top.folder, top.pageToken, pageSize)
       IN /\ top.fn = fn
          /\ top.phase = "list"
          /\ calls' = Append(calls, Call("list", fn, top.act, top.folder, 0, 0, "", top.pageToken,
                                         resp.nextPageToken, resp.files, TRUE, 0))
          /\ Resume(SetTop(stack, [top EXCEPT !.files = resp.files,
                                              !.pageToken = resp.nextPageToken,
                                              !.phase = "item"]),
                    invs, out)
    /\ UNCHANGED <<store, target, pageSize, fails>>

\* a list failure caught in the loop and taken for an empty last page
ListFail_Swallowed(fn) ==
    /\ status = "running"
    /\ fails < MaxFail
    /\ LET top == Top(stack)
       IN /\ top.fn = fn
          /\ top.phase = "list"
          /\ calls' = Append(calls, Call("list", fn, top.act, top.folder, 0, 0, "", top.pageToken,
                                         NoToken, <<>>, FALSE, 0))
          /\ Resume(SetTop(stack, [top EXCEPT !.files = <<>>, !.pageToken = NoToken,
                                              !.phase = "item"]),
                    invs, out)
    /\ fails' = fails + 1
    /\ UNCHANGED <<store, target, pageSize>>

\* drive.files.list throws: nothing catches it below main
ListFail(fn) ==
    /\ status = "running"
    /\ fails < MaxFail
    /\ LET top == Top(stack)
       IN /\ top.fn = fn
          /\ top.phase = "list"
          /\ calls' = Append(calls, Call("list", fn, top.act, top.folder, 0, 0, "", top.pageToken,
                                         NoToken, <<>>, FALSE, 0))
    /\ fails' = fails + 1
    /\ Throw
    /\ UNCHANGED <<store, target, pageSize>>

ProcessFolderList == ListOk("processFolder")

ProcessFolderListFail == ListFail("processFolder")

CopyFolderContentsList == ListOk("copyFolderContents")

CopyFolderContentsListFail == ListFail("copyFolderContents")

\* the activation on top of the stack is at the top of its for body
AtItem(fn) ==
    /\ status = "running"
    /\ Top(stack).fn = fn
    /\ Top(stack).phase = "item"
    /\ Top(stack).files # <<>>

\* processFolder, lines 94-108: an owned folder gets a new folder of the
\* same name in the folder being walked, and its contents are copied
ProcessFolderCreate ==
    /\ AtItem("processFolder")
    /\ LET top  == Top(stack)
           file == Head(top.files)
           id   == Len(store) + 1
       IN /\ IsOwnedByTarget(file, target)
          /\ file.mimeType = FOLDER_MIME
          /\ store' = Append(store, CreateFolderEntry(file.name, top.folder))
          /\ calls' = Append(calls, Call("create", "processFolder", top.act, top.folder, file.id,
                                         top.folder, file.name, NoToken, NoToken, <<>>, TRUE, id))
          /\ Resume(SetTop(stack, [top EXCEPT !.phase = "next", !.newFolder = id,
                                              !.cont = ProcessFolderCalls(TRUE, TRUE)]),
                    invs, out)
    /\ UNCHANGED <<target, pageSize, fails>>

\* drive.files.create throws at line 96: no try encloses it
ProcessFolderCreateFail ==
    /\ AtItem("processFolder")
    /\ fails < MaxFail
    /\ LET top  == Top(stack)
           file == Head(top.files)
       IN /\ IsOwnedByTarget(file, target)
          /\ file.mimeType = FOLDER_MIME
          /\ calls' = Append(calls, Call("create", "processFolder", top.act, top.folder, file.id,
                                         top.folder, file.name, NoToken, NoToken, <<>>, FALSE, 0))
    /\ fails' = fails + 1
    /\ Throw
    /\ UNCHANGED <<store, target, pageSize>>

\* copyFile without its try/catch: a failed drive.files.copy is thrown on
CopyFile_NoCatch(by, fileId, parentId, fileName, ok) ==
    LET top == Top(stack)
        id  == Len(store) + 1
    IN /\ store' = IF ok THEN Append(store, CopyItemEntry(store, fileId, fileName, parentId))
                         ELSE store
       /\ calls' = Append(calls, Call("copy", by, top.act, top.folder, fileId, parentId, fileName,
                                      NoToken, NoToken, <<>>, ok, IF ok THEN id ELSE 0))
       /\ fails' = IF ok THEN fails ELSE fails + 1
       /\ IF ok
          THEN Resume(SetTop(stack, [top EXCEPT
                            !.phase = "next",
                            !.cont = IF by = "processFolder"
                                     THEN ProcessFolderCalls(TRUE, FALSE)
                                     ELSE CopyFolderContentsCalls(FALSE)]),
                      invs, out)
          ELSE Throw

\* copyFile giving back a same-named entry that the destination already
\* holds instead of making a new copy
CopyFile_ReuseExisting(by, fileId, parentId, fileName, ok) ==
    LET top  == Top(stack)
        same == { i \in DOMAIN store : /\ i # fileId
                                       /\ store[i].parent = parentId
                                       /\ store[i].name = fileName
                                       /\ store[i].mimeType = store[fileId].mimeType }
        id   == IF same = {} THEN Len(store) + 1 ELSE CHOOSE i \in same : TRUE
    IN /\ store' = IF ok /\ same = {}
                   THEN Append(store, CopyItemEntry(store, fileId, fileName, parentId))
                   ELSE store
       /\ calls' = Append(calls, Call("copy", by, top.act, top.folder, fileId, parentId, fileName,
                                      NoToken, NoToken, <<>>, ok, IF ok THEN id ELSE 0))
       /\ fails' = IF ok THEN fails ELSE fails + 1
       /\ Resume(SetTop(stack, [top EXCEPT
                            !.phase = "next",
                            !.cont = IF by = "processFolder"
                                     THEN ProcessFolderCalls(TRUE, FALSE)
                                     ELSE CopyFolderContentsCalls(FALSE)]),
                 invs, IF ok THEN out ELSE Append(out, "copy-error"))

\* copyFile moving the source into the destination instead of copying it
CopyFile_Move(by, fileId, parentId, fileName, ok) ==
    LET top == Top(stack)
    IN /\ store' = IF ok THEN [store EXCEPT ![fileId].parent = parentId] ELSE store
       /\ calls' = Append(calls, Call("copy", by, top.act, top.folder, fileId, parentId, fileName,
                                      NoToken, NoToken, <<>>, ok, IF ok THEN fileId ELSE 0))
       /\ fails' = IF ok THEN fails ELSE fails + 1
       /\ Resume(SetTop(stack, [top EXCEPT
                            !.phase = "next",
                            !.cont = IF by = "processFolder"
                                     THEN ProcessFolderCalls(TRUE, FALSE)
                                     ELSE CopyFolderContentsCalls(FALSE)]),
                 invs, IF ok THEN out ELSE Append(out, "copy-error"))

\* copyFile, lines 163-178, called by function `by` for the head item of
\* the top activation: drive.files.copy succeeds or throws, and a throw is
\* caught and logged inside copyFile; the caller's for loop goes on
CopyFile(by, fileId, parentId, fileName, ok) ==
    LET top == Top(stack)
        id  == Len(store) + 1
    IN /\ store' = IF ok THEN Append(store, CopyItemEntry(store, fileId, fileName, parentId))
                         ELSE store
       /\ calls' = Append(calls, Call("copy", by, top.act, top.folder, fileId, parentId, fileName,
                                      NoToken, NoToken, <<>>, ok, IF ok THEN id ELSE 0))
       /\ fails' = IF ok THEN fails ELSE fails + 1
       /\ Resume(SetTop(stack, [top EXCEPT
                            !.phase = "next",
                            !.cont = IF by = "processFolder"
                                     THEN ProcessFolderCalls(TRUE, FALSE)
                                     ELSE CopyFolderContentsCalls(FALSE)]),
                 invs, IF ok THEN out ELSE Append(out, "copy-error"))

\* processFolder, lines 109-112: an owned file is copied beside itself
ProcessFolderCopyFile ==
    /\ AtItem("processFolder")
    /\ LET top  == Top(stack)
           file == Head(top.files)
       IN /\ IsOwnedByTarget(file, target)
          /\ file.mimeType # FOLDER_MIME
          /\ \E ok \in BOOLEAN :
                /\ ok \/ fails < MaxFail
                /\ CopyFile("processFolder", file.id, top.folder, file.name, ok)
    /\ UNCHANGED <<target, pageSize>>

\* copyFolderContents, lines 143-154: every sub-folder is recreated in the
\* destination and copied into
CopyFolderContentsCreate ==
    /\ AtItem("copyFolderContents")
    /\ LET top  == Top(stack)
           file == Head(top.files)
           id   == Len(store) + 1
       IN /\ file.mimeType = FOLDER_MIME
          /\ store' = Append(store, CreateFolderEntry(file.name, top.dest))
          /\ calls' = Append(calls, Call("create", "copyFolderContents", top.act, top.folder, file.id,
                                         top.dest, file.name, NoToken, NoToken, <<>>, TRUE, id))
          /\ Resume(SetTop(stack, [top EXCEPT !.phase = "next", !.newFolder = id,
                                              !.cont = CopyFolderContentsCalls(TRUE)]),
                    invs, out)
    /\ UNCHANGED <<target, pageSize, fails>>

\* drive.files.create throws at line 145: no try encloses it
CopyFolderContentsCreateFail ==
    /\ AtItem("copyFolderContents")
    /\ fails < MaxFail
    /\ LET top  == Top(stack)
           file == Head(top.files)
       IN /\ file.mimeType = FOLDER_MIME
          /\ calls' = Append(calls, Call("create", "copyFolderContents", top.act, top.folder, file.id,
                                         top.dest, file.name, NoToken, NoToken, <<>>, FALSE, 0))
    /\ fails' = fails + 1
    /\ Throw
    /\ UNCHANGED <<store, target, pageSize>>

\* copyFolderContents, lines 155-158: every file is copied into the
\* destination
CopyFolderContentsCopyFile ==
    /\ AtItem("copyFolderContents")
    /\ LET top  == Top(stack)
           file == Head(top.files)
       IN /\ file.mimeType # FOLDER_MIME
          /\ \E ok \in BOOLEAN :
                /\ ok \/ fails < MaxFail
                /\ CopyFile("copyFolderContents", file.id, top.dest, file.name, ok)
    /\ UNCHANGED <<target, pageSize>>

\* The exit status of the process, by the way main ended.  main catches
\* every error and only logs it (lines 53-55): it neither rethrows nor
\* calls process.exit nor sets process.exitCode, and line 228 calls main
\* without a handler, so the process ends with status 0 either way.
ExitStatus == [st \in {"done", "failed"} |-> 0]

Next ==
    \/ AuthorizeFail
    \/ GetRootFail
    \/ StartWalk
    \/ ProcessFolderList
    \/ ProcessFolderListFail
    \/ ProcessFolderCreate
    \/ ProcessFolderCreateFail
    \/ ProcessFolderCopyFile
    \/ CopyFolderContentsList
    \/ CopyFolderContentsListFail
    \/ CopyFolderContentsCreate
    \/ CopyFolderContentsCreateFail
    \/ CopyFolderContentsCopyFile

Spec == Init /\ [][Next]_vars

\* The program is started a second time, line 228, after a run that has
\* ended with the success message and in which every store call has
\* succeeded, and is given the same root id and the same target; the
\* store is as the first run left it.
RunAgain ==
    /\ status = "done"
    /\ \A k \in 1..Len(calls) : calls[k].ok
    /\ Cardinality({ k \in 1..Len(calls) : calls[k].op = "get" }) = 1
    /\ status' = "init"
    /\ UNCHANGED <<store, target, pageSize, stack, calls, invs, fails, out>>

NextTwice ==
    \/ Next
    \/ RunAgain

SpecTwice == Init /\ [][NextTwice]_vars

TypeOK ==
    /\ status \in {"init", "running", "done", "failed"}
    /\ (status = "running") = (stack # <<>>)
    /\ fails \in 0..MaxFail
    /\ WellFormed(store)

(***************************************************************************)
(* Vocabulary of the properties.                                           *)
(***************************************************************************)
CallIdx == 1..Len(calls)

Range(seq) == { seq[k] : k \in 1..Len(seq) }

\* the run finished without a fatal error / with every store call succeeding
RunDone == status = "done"

AllSucceeded == \A k \in CallIdx : calls[k].ok

\* the entries that some list response returned
ListedFiles == UNION { Range(calls[k].files) : k \in { j \in CallIdx : calls[j].op = "list" } }

ListedBy(fn) ==
    UNION { Range(calls[k].files) : k \in { j \in CallIdx : calls[j].op = "list" /\ calls[j].by = fn } }

Owned(file) == target \in Range(file.owners)

\* ids of the entries the run created, and of those that were there before
CreatedIds == { calls[k].id : k \in { j \in CallIdx : calls[j].ok /\ calls[j].op \in {"create", "copy"} } }

OrigIds == (1..Len(store)) \ CreatedIds

RECURSIVE IsUnder(_, _, _)
IsUnder(s, i, folderId) ==
    IF s[i].parent = 0 THEN FALSE
    ELSE s[i].parent = folderId \/ IsUnder(s, s[i].parent, folderId)

\* the items (files and folders) of the subtree below a folder, among ids
Subtree(s, folderId, ids) == { i \in ids : IsUnder(s, i, folderId) }

CopiesOf(id, fns) ==
    { k \in CallIdx : calls[k].op = "copy" /\ calls[k].item = id /\ calls[k].by \in fns }

FoldersFor(id, fns) ==
    { k \in CallIdx : calls[k].op = "create" /\ calls[k].item = id /\ calls[k].by \in fns }

\* call k created an entry with the name of file beside file
IsSiblingReplica(k, file) ==
    /\ calls[k].name = file.name
    /\ calls[k].parent = store[file.id].parent
    /\ store[calls[k].id].name = file.name
    /\ store[calls[k].id].parent = store[file.id].parent
    /\ store[calls[k].id].mimeType = file.mimeType

BothFns == {"processFolder", "copyFolderContents"}

(***************************************************************************)
(* C1 as stated: after a run in which every store call succeeded, every    *)
(* listed entry E owned by the target has, if a file, exactly one copyItem *)
(* with source E, which puts the copy under E's name beside E, and, if a   *)
(* folder, exactly one createFolder by the walker with E's name beside E.  *)
(***************************************************************************)
C1_AsStated ==
    (RunDone /\ AllSucceeded) =>
        \A file \in ListedFiles : Owned(file) =>
            IF file.mimeType = FOLDER_MIME
            THEN /\ Cardinality(FoldersFor(file.id, {"processFolder"})) = 1
                 /\ \A k \in FoldersFor(file.id, {"processFolder"}) : IsSiblingReplica(k, file)
            ELSE /\ Cardinality(CopiesOf(file.id, BothFns)) = 1
                 /\ \A k \in CopiesOf(file.id, BothFns) : IsSiblingReplica(k, file)

(***************************************************************************)
(* C1 amended: as C1, with "exactly one copyItem issued by the walker":    *)
(* the walker issues exactly one copyItem with source E and it puts the    *)
(* copy under E's name beside E; copyFolderContents may issue further      *)
(* copyItem calls with source E when E lies inside a replicated folder.    *)
(***************************************************************************)
C1_OneSiblingReplica ==
    (RunDone /\ AllSucceeded) =>
        \A file \in ListedFiles : Owned(file) =>
            IF file.mimeType = FOLDER_MIME
            THEN /\ Cardinality(FoldersFor(file.id, {"processFolder"})) = 1
                 /\ \A k \in FoldersFor(file.id, {"processFolder"}) : IsSiblingReplica(k, file)
            ELSE /\ Cardinality(CopiesOf(file.id, {"processFolder"})) = 1
                 /\ \A k \in CopiesOf(file.id, {"processFolder"}) : IsSiblingReplica(k, file)

\* a finished run without failures that replicated an owned folder and
\* copied an owned file lying inside it
C1_Witness ==
    /\ RunDone /\ AllSucceeded
    /\ \E file \in ListedFiles, dir \in ListedFiles :
          /\ Owned(file) /\ file.mimeType # FOLDER_MIME
          /\ Owned(dir) /\ dir.mimeType = FOLDER_MIME
          /\ store[file.id].parent = dir.id
          /\ FoldersFor(dir.id, {"processFolder"}) # {}
          /\ CopiesOf(file.id, {"processFolder"}) # {}

(***************************************************************************)
(* C2 as stated: when a run in which every store call succeeded has ended, *)
(* the subtree of the folder created for an owned folder E has as many     *)
(* items as E's subtree.                                                   *)
(***************************************************************************)
C2_AsStated ==
    (RunDone /\ AllSucceeded) =>
        \A k \in CallIdx : (calls[k].op = "create" /\ calls[k].by = "processFolder") =>
            Cardinality(Subtree(store, calls[k].id, 1..Len(store)))
                = Cardinality(Subtree(store, calls[k].item, 1..Len(store)))

(***************************************************************************)
(* C2 amended: the subtree of the folder created for E has, when the run   *)
(* has ended, as many items as E's subtree had before the run; the walk    *)
(* itself adds replicas inside E when E contains owned items.              *)
(***************************************************************************)
C2_ReplicaCountsOriginalSubtree ==
    (RunDone /\ AllSucceeded) =>
        \A k \in CallIdx : (calls[k].op = "create" /\ calls[k].by = "processFolder") =>
            Cardinality(Subtree(store, calls[k].id, 1..Len(store)))
                = Cardinality(Subtree(store, calls[k].item, OrigIds))

\* a finished run that replicated an owned folder holding a folder that
\* holds an item owned by somebody else
C2_Witness ==
    /\ RunDone /\ AllSucceeded
    /\ \E k \in CallIdx :
          /\ calls[k].op = "create" /\ calls[k].by = "processFolder"
          /\ \E i, j \in OrigIds :
                /\ store[i].parent = calls[k].item
                /\ store[j].parent = i
                /\ target \notin Range(store[j].owners)

(***************************************************************************)
(* C3 as stated: in the scenario (R of alice holds folder A of bob and     *)
(* file g1 of alice, A holds f1 of bob, target bob, no failure) the run    *)
(* creates a folder A in R holding a copy of f1, no copy of g1, and        *)
(* nothing inside the original A.                                          *)
(***************************************************************************)
IsScenario ==
    /\ Len(store) >= Len(ScenarioStore)
    /\ SubSeq(store, 1, Len(ScenarioStore)) = ScenarioStore
    /\ target = Bob

\* a new folder named A lies in R and holds a copy of f1
ScenarioReplica ==
    \E a \in CreatedIds :
        /\ store[a] = Entry("A", FOLDER_MIME, 1, <<AuthUser>>)
        /\ \E f \in CreatedIds : store[f] = Entry("f1", FILE_MIME, a, <<AuthUser>>)
        /\ FoldersFor(2, BothFns) = { k \in CallIdx : calls[k].id = a }

C3_AsStated ==
    (IsScenario /\ RunDone /\ AllSucceeded) =>
        /\ ScenarioReplica
        /\ CopiesOf(4, BothFns) = {}
        /\ { i \in CreatedIds : store[i].parent = 2 } = {}

(***************************************************************************)
(* C3 amended: in the scenario the run creates a folder A in R holding a   *)
(* copy of f1 and no copy of g1, and when the walk descends into the       *)
(* original A it finds f1 owned by the target and creates exactly one      *)
(* copy of f1 inside the original A.                                       *)
(***************************************************************************)
C3_Scenario ==
    (IsScenario /\ RunDone /\ AllSucceeded) =>
        /\ ScenarioReplica
        /\ CopiesOf(4, BothFns) = {}
        /\ \E f \in CreatedIds :
              /\ { i \in CreatedIds : store[i].parent = 2 } = {f}
              /\ store[f] = Entry("f1", FILE_MIME, 2, <<AuthUser>>)
              /\ \E k \in CopiesOf(3, {"processFolder"}) : calls[k].id = f
        /\ Len(store) = Len(ScenarioStore) + 3

C3_Witness == IsScenario /\ RunDone /\ AllSucceeded

(***************************************************************************)
(* C4: the walker replicates a listed child exactly when the target is     *)
(* equal, as a string, to some element of the child's owner list: in       *)
(* every state each createFolder or copyItem of the walker is for a child  *)
(* whose owners include the target, and an activation of processFolder     *)
(* that has moved past a listed child whose owners include the target has  *)
(* issued a createFolder or copyItem for it.                               *)
(***************************************************************************)
\* the listed children the activation act has finished with: those of its
\* earlier pages and, of its current page, those no longer in files
PassedBy(act) ==
    LET onStack == { i \in 1..Len(stack) : stack[i].act = act }
        listed  == UNION { Range(calls[k].files) :
                           k \in { j \in CallIdx : calls[j].op = "list" /\ calls[j].act = act } }
    IN IF onStack = {} THEN listed
       ELSE listed \ UNION { Range(stack[i].files) : i \in onStack }

C4_ReplicatesIffOwned ==
    /\ \A k \in CallIdx :
          (calls[k].by = "processFolder" /\ calls[k].op \in {"create", "copy"}) =>
              \E file \in ListedBy("processFolder") :
                  /\ file.id = calls[k].item
                  /\ target \in Range(file.owners)
    /\ status # "failed" =>
          \A a \in 1..Len(invs) : invs[a].fn = "processFolder" =>
              \A file \in PassedBy(a) : target \in Range(file.owners) =>
                  \E k \in CallIdx :
                      /\ calls[k].act = a
                      /\ calls[k].item = file.id
                      /\ calls[k].op = IF file.mimeType = FOLDER_MIME THEN "create" ELSE "copy"

\* the walker has moved past a child owned by the target in second place,
\* past one owned by Bob@x.com and not by bob@x.com, and replicated the
\* former only
C4_Witness ==
    /\ target = Bob
    /\ \E a \in 1..Len(invs) : \E f, g \in PassedBy(a) :
          /\ invs[a].fn = "processFolder"
          /\ f.owners = <<Alice, Bob>>
          /\ g.owners = <<BobUpper>>
          /\ CopiesOf(f.id, {"processFolder"}) \cup FoldersFor(f.id, {"processFolder"}) # {}
          /\ CopiesOf(g.id, {"processFolder"}) \cup FoldersFor(g.id, {"processFolder"}) = {}

(***************************************************************************)
(* C5: when a run has ended without a fatal error, processFolder has been  *)
(* invoked on every folder that a listing returned, owned by the target    *)
(* or not.                                                                 *)
(***************************************************************************)
C5_DescendsIntoEveryFolder ==
    RunDone =>
        \A file \in ListedFiles : file.mimeType = FOLDER_MIME =>
            \E a \in 1..Len(invs) :
                invs[a].fn = "processFolder" /\ invs[a].folder = file.id

\* a finished run that walked into a folder owned by the target and into
\* one that is not
C5_Witness ==
    /\ RunDone
    /\ \E f, g \in ListedFiles :
          /\ f.mimeType = FOLDER_MIME /\ Owned(f)
          /\ g.mimeType = FOLDER_MIME /\ ~Owned(g)
          /\ \E a, b \in 1..Len(invs) :
                /\ invs[a].fn = "processFolder" /\ invs[a].folder = f.id
                /\ invs[b].fn = "processFolder" /\ invs[b].folder = g.id

(***************************************************************************)
(* Vocabulary of the ordering properties.                                  *)
(***************************************************************************)
\* indices in the call sequence cs of the list requests of activation act
ListsOf(cs, act) == { k \in 1..Len(cs) : cs[k].op = "list" /\ cs[k].act = act }

MaxOf(S) == CHOOSE x \in S : \A y \in S : y <= x

MinOf(S) == CHOOSE x \in S : \A y \in S : x <= y

OnStack(act) == \E i \in 1..Len(stack) : stack[i].act = act

\* ids listed by activation act, in the order of arrival
RECURSIVE ListedIds(_, _, _)
ListedIds(cs, act, n) ==
    IF n = 0 THEN <<>>
    ELSE ListedIds(cs, act, n - 1)
         \o (IF cs[n].op = "list" /\ cs[n].act = act
             THEN [j \in 1..Len(cs[n].files) |-> cs[n].files[j].id]
             ELSE <<>>)

\* activation b is act or was called, directly or not, by act
RECURSIVE CalledWithin(_, _)
CalledWithin(b, act) ==
    IF b = act THEN TRUE
    ELSE IF b = 0 \/ b < act THEN FALSE
    ELSE CalledWithin(invs[b].caller, act)

\* activation b has seen the last page of its folder
Enumerated(b) ==
    \E k \in ListsOf(calls, b) : calls[k].ok /\ calls[k].nextPageToken = NoToken

\* activation act has done for child file, listed by its request l, all
\* that its for body does: the store call, and the recursive calls, which
\* have run through the last page of the child
Processed(act, file, l) ==
    /\ (invs[act].fn = "copyFolderContents" \/ target \in Range(file.owners)) =>
          \E m \in CallIdx : m > l /\ calls[m].act = act /\ calls[m].item = file.id
    /\ file.mimeType = FOLDER_MIME =>
          /\ \E b \in 1..Len(invs) :
                /\ invs[b] = [fn |-> invs[act].fn, folder |-> file.id,
                              dest |-> invs[b].dest, caller |-> act]
                /\ Enumerated(b)
          /\ (invs[act].fn = "processFolder" /\ target \in Range(file.owners)) =>
                \E b \in 1..Len(invs), m \in CallIdx :
                    /\ calls[m].act = act /\ calls[m].item = file.id /\ calls[m].op = "create"
                    /\ invs[b] = [fn |-> "copyFolderContents", folder |-> file.id,
                                  dest |-> calls[m].id, caller |-> act]
                    /\ Enumerated(b)

\* the step issues a list request: what holds of it
ListRequestInOrder ==
    LET c == calls'[Len(calls')]
        a == c.act
        prev == ListsOf(calls, a)
    IN (Len(calls') = Len(calls) + 1 /\ c.op = "list") =>
        /\ stack # <<>>
        /\ Top(stack).act = a
        /\ Top(stack).files = <<>>
        /\ c.folder = invs[a].folder
        /\ IF prev = {}
           THEN c.pageToken = NoToken
           ELSE LET l == MaxOf(prev) IN
                /\ calls[l].nextPageToken # NoToken
                /\ c.pageToken = calls[l].nextPageToken
                /\ \A file \in Range(calls[l].files) : Processed(a, file, l)

\* an activation that has returned has received every child its folder
\* had, once each and in the store's order
ReturnedSawAllPages ==
    status # "failed" =>
        \A a \in 1..Len(invs) : ~OnStack(a) =>
            /\ ListedIds(calls, a, Len(calls))
                  = SeqOfSet({ i \in OrigIds : store[i].parent = invs[a].folder })
            /\ Enumerated(a)

(***************************************************************************)
(* C6: every activation of processFolder and of copyFolderContents         *)
(* requests the pages of its folder once each and in order: its first      *)
(* request carries no token, every later one carries the token returned    *)
(* with the page before and is issued only when every item of that page    *)
(* has been processed, replication and descent included; no request        *)
(* follows a response without nextPageToken, and an activation that has    *)
(* returned has received every child of its folder once, in store order.   *)
(***************************************************************************)
C6_PagesInOrder == [][ListRequestInOrder /\ ReturnedSawAllPages']_vars

\* an activation has requested a second page after a first page that held
\* a folder owned by the target
C6_Witness ==
    \E a \in 1..Len(invs) :
        /\ Cardinality(ListsOf(calls, a)) >= 2
        /\ \E file \in Range(calls[MinOf(ListsOf(calls, a))].files) :
              file.mimeType = FOLDER_MIME /\ Owned(file)

(***************************************************************************)
(* C7: when processFolder issues a list request for a folder C owned by    *)
(* the target, the walker's createFolder for C has succeeded and the       *)
(* copyFolderContents of C into the new folder has returned: it has seen   *)
(* the last page of C, every store call made within it precedes the        *)
(* request and, when no call failed, the new folder holds as many items    *)
(* as C's subtree.                                                         *)
(***************************************************************************)
C7_CopyBeforeDescent ==
    \A k \in CallIdx :
        (calls[k].op = "list" /\ calls[k].by = "processFolder" /\ invs[calls[k].act].caller # 0) =>
            LET a == calls[k].act
                p == invs[a].caller
            IN \A file \in UNION { Range(calls[l].files) : l \in ListsOf(calls, p) } :
                 (file.id = invs[a].folder /\ target \in Range(file.owners)) =>
                    \E m \in 1..(k - 1), b \in 1..Len(invs) :
                        /\ calls[m].op = "create" /\ calls[m].ok
                        /\ calls[m].act = p /\ calls[m].item = file.id
                        /\ invs[b] = [fn |-> "copyFolderContents", folder |-> file.id,
                                      dest |-> calls[m].id, caller |-> p]
                        /\ ~OnStack(b)
                        /\ Enumerated(b)
                        /\ \A j \in CallIdx : CalledWithin(calls[j].act, b) => (m < j /\ j < k)
                        /\ AllSucceeded =>
                              Cardinality(Subtree(store, calls[m].id, 1..Len(store)))
                                  = Cardinality(Subtree(store, file.id, OrigIds))

\* the walker lists an owned folder that is not empty
C7_Witness ==
    \E k \in CallIdx :
        /\ calls[k].op = "list" /\ calls[k].by = "processFolder" /\ calls[k].ok
        /\ calls[k].files # <<>>
        /\ FoldersFor(calls[k].folder, {"processFolder"}) # {}

(***************************************************************************)
(* C8 as stated: a failed createFolder does not abort the run.             *)
(***************************************************************************)
C8_AsStated ==
    (calls # <<>> /\ calls[Len(calls)].op = "create" /\ ~calls[Len(calls)].ok) =>
        status # "failed"

(***************************************************************************)
(* C9: a failed copyItem never aborts the run: right after it the run is   *)
(* not failed and the error is logged by copyFile; a run is never aborted  *)
(* by a copyItem; and in a run that has ended every sibling after the file *)
(* whose copy failed has been listed by the same activation and, where     *)
(* the loop replicates it, has its own store call after the failed one.    *)
(***************************************************************************)
C9_CopyFailureIsNotFatal ==
    /\ (calls # <<>> /\ calls[Len(calls)].op = "copy" /\ ~calls[Len(calls)].ok) =>
          (status # "failed" /\ "copy-error" \in Range(out))
    /\ (status = "failed" /\ calls # <<>>) => calls[Len(calls)].op # "copy"
    /\ RunDone =>
          \A m \in CallIdx : (calls[m].op = "copy" /\ ~calls[m].ok) =>
              \A i \in OrigIds : (store[i].parent = calls[m].folder /\ i > calls[m].item) =>
                 /\ \E l \in ListsOf(calls, calls[m].act) :
                       \E file \in Range(calls[l].files) : file.id = i
                 /\ (calls[m].by = "copyFolderContents" \/ target \in Range(store[i].owners)) =>
                       \E j \in CallIdx :
                           j > m /\ calls[j].act = calls[m].act /\ calls[j].item = i

\* a finished run in which a copy failed and a sibling on a later page
\* was replicated afterwards
C9_Witness ==
    /\ RunDone
    /\ \E m, l, j \in CallIdx :
          /\ calls[m].op = "copy" /\ ~calls[m].ok
          /\ m < l /\ l < j
          /\ calls[l].op = "list" /\ calls[l].act = calls[m].act
          /\ calls[j].act = calls[m].act /\ calls[j].op \in {"create", "copy"} /\ calls[j].ok

(***************************************************************************)
(* C10: a failed list request is the last store call of the run: the run   *)
(* is aborted with every activation abandoned, main logs the error, and    *)
(* the success message is not emitted; it is emitted only in runs in which *)
(* every list request succeeded.                                           *)
(***************************************************************************)
C10_ListFailureIsFatal ==
    /\ \A k \in CallIdx : (calls[k].op = "list" /\ ~calls[k].ok) =>
          /\ k = Len(calls)
          /\ status = "failed"
          /\ stack = <<>>
          /\ "error" \in Range(out)
          /\ "success" \notin Range(out)
    /\ "success" \in Range(out) =>
          (status = "done" /\ \A k \in CallIdx : calls[k].op = "list" => calls[k].ok)

\* a list request failed inside a subtree copy, two calls below main
C10_Witness ==
    /\ calls # <<>>
    /\ LET c == calls[Len(calls)] IN
          /\ c.op = "list" /\ ~c.ok /\ c.by = "copyFolderContents"
          /\ invs[c.act].caller # 0
          /\ \E k \in CallIdx : calls[k].op = "create" /\ calls[k].ok

\* ---------------------------------------------------------------------
\* C11  When the entry fetched for the root id has no owners, the run
\* aborts before any traversal: the only store call is the fetch of the
\* root entry, no listing, createFolder or copyItem is ever issued, no
\* processFolder activation exists, and no success message is printed.
C11_NoOwnerAbortsBeforeTraversal ==
    Len(store[RootId].owners) = 0 =>
        /\ \A k \in CallIdx : calls[k].op = "get"
        /\ invs = <<>>
        /\ stack = <<>>
        /\ CreatedIds = {}
        /\ "success" \notin Range(out)
        /\ "root-owner" \notin Range(out)
        /\ status \in {"init", "failed"}

\* the root entry was fetched, it has no owners, and the run has aborted
C11_Witness ==
    /\ Len(store[RootId].owners) = 0
    /\ \E k \in CallIdx : calls[k].op = "get" /\ calls[k].ok
    /\ status = "failed"
    /\ "error" \in Range(out)
    /\ \E i \in DOMAIN store : store[i].parent = RootId

\* ---------------------------------------------------------------------
\* C12  A run is purely additive.  No step, of a run that ends normally
\* or of one that aborts, changes or removes an entry the store holds:
\* every entry keeps its id, name, kind, parent and owner list.  The
\* store changes only by gaining one new entry, and only in a step whose
\* store call is a successful createFolder or copyItem returning the id
\* of that entry; every other store call is a fetch of the root entry or
\* a listing, and leaves the store as it is.
C12_PurelyAdditive ==
    [][ /\ Len(store') >= Len(store)
        /\ SubSeq(store', 1, Len(store)) = store
        /\ calls' # calls =>
              /\ Len(calls') = Len(calls) + 1
              /\ SubSeq(calls', 1, Len(calls)) = calls
              /\ calls'[Len(calls')].op \in {"get", "list", "create", "copy"}
        /\ store' # store =>
              /\ Len(store') = Len(store) + 1
              /\ Len(calls') = Len(calls) + 1
              /\ LET c == calls'[Len(calls')] IN
                    /\ c.op \in {"create", "copy"}
                    /\ c.ok
                    /\ c.id = Len(store')
                    /\ store'[c.id].parent = c.parent
                    /\ c.parent \in 1..Len(store)
                    /\ IsFolder(store[c.parent])
        /\ (calls' # calls /\ calls'[Len(calls')].op \in {"get", "list"}) => store' = store
      ]_vars

\* an aborted run that had created a folder and copied a file into it,
\* the source of the copy being where and what it was
C12_Witness ==
    /\ status = "failed"
    /\ \E k, l \in CallIdx :
          /\ calls[k].op = "create" /\ calls[k].ok
          /\ calls[l].op = "copy" /\ calls[l].ok
          /\ calls[l].parent = calls[k].id
          /\ store[calls[l].item].parent # calls[l].parent
          /\ calls[l].item \in OrigIds

\* ---------------------------------------------------------------------
\* C16 as stated: when a fatal error has reached main, the error has been
\* logged and the process ends with a non-zero exit status, which differs
\* from the exit status of a successful run.
C16_AsStated ==
    status = "failed" =>
        /\ "error" \in Range(out)
        /\ "success" \notin Range(out)
        /\ ExitStatus[status] # 0
        /\ ExitStatus[status] # ExitStatus["done"]

\* ---------------------------------------------------------------------
\* C13  Over a finite store whose folders form a tree below the root and
\* which only the run itself changes, for every target identity, a run
\* terminates.  Every step of a run issues one store call or ends the
\* run; the number of store calls never exceeds a bound fixed by the
\* number of entries the store held before the run; and a run that has
\* not ended is never stuck: it stands at a store call, in the topmost
\* activation, every activation below awaiting the one above it, each of
\* them on a child of the folder of the one below.  So a run in which
\* every store call returns or throws ends after finitely many steps.
CallBudget == 3 * Cardinality(OrigIds) * Cardinality(OrigIds) + 1

Terminated == status \in {"done", "failed"}

\* the topmost activation is about to call the store
AtStoreCall ==
    /\ stack # <<>>
    /\ LET top == Top(stack) IN
          \/ top.phase = "list"
          \/ /\ top.phase = "item"
             /\ top.files # <<>>
             /\ top.fn = "processFolder" => IsOwnedByTarget(Head(top.files), target)
    /\ \A i \in 1..(Len(stack) - 1) :
          /\ stack[i].phase = "await"
          /\ stack[i].files # <<>>
          /\ stack[i + 1].folder = Head(stack[i].files).id
          /\ store[stack[i + 1].folder].parent = stack[i].folder

GetCalls == { k \in CallIdx : calls[k].op = "get" }

TwoRunsDone == RunDone /\ AllSucceeded /\ Cardinality(GetCalls) = 2

\* the calls of the second run
SecondRun == { k \in CallIdx : k > MaxOf(GetCalls) }

\* the number of entries the store held when the second run began
SizeAfterFirst ==
    Len(store) - Cardinality({ k \in SecondRun : calls[k].op \in {"create", "copy"} /\ calls[k].ok })

WalkerReplicas(i) == FoldersFor(i, {"processFolder"}) \cup CopiesOf(i, {"processFolder"})

C14_NotIdempotent ==
    TwoRunsDone =>
        /\ \A i \in OrigIds \ {RootId} : target \in Range(store[i].owners) =>
              LET W == WalkerReplicas(i) IN
              /\ Cardinality(W) = 2
              /\ Cardinality(W \cap SecondRun) = 1
              /\ Cardinality({ calls[k].id : k \in W }) = 2
              /\ \A k \in W : IsSiblingReplica(k, FileInfo(store, i))
              /\ \A k \in W \cap SecondRun : \A j \in W \ SecondRun :
                    LET new == Subtree(store, calls[k].id, 1..Len(store))
                        old == Subtree(store, calls[j].id, 1..Len(store))
                    IN /\ calls[k].id > SizeAfterFirst
                       /\ calls[j].id <= SizeAfterFirst
                       /\ \A n \in new : n > SizeAfterFirst
                       /\ new \cap (old \cup {calls[j].id}) = {}
                       /\ Cardinality(new) = Cardinality(Subtree(store, i, 1..SizeAfterFirst))
        /\ \A l \in SecondRun : (calls[l].op = "list" /\ calls[l].by = "processFolder") =>
              \A file \in Range(calls[l].files) : Owned(file) =>
                  \E k \in SecondRun :
                      /\ k > l
                      /\ calls[k].act = calls[l].act
                      /\ calls[k].item = file.id
                      /\ calls[k].op = IF file.mimeType = FOLDER_MIME THEN "create" ELSE "copy"
                      /\ calls[k].id > SizeAfterFirst
                      /\ \A m \in CallIdx : (m # k /\ calls[m].ok) => calls[m].id # calls[k].id

\* two finished runs without a failure over a tree in which the target
\* owns a folder and a file inside it: both have their second replica
C14_Witness ==
    /\ TwoRunsDone
    /\ \E i, j \in OrigIds :
          /\ store[j].parent = i /\ i # RootId
          /\ IsFolder(store[i]) /\ ~IsFolder(store[j])
          /\ target \in Range(store[i].owners)
          /\ target \in Range(store[j].owners)
          /\ Cardinality(WalkerReplicas(i)) = 2
          /\ Cardinality(WalkerReplicas(j)) = 2

\* ---------------------------------------------------------------------
\* C17  No entry created by the run is fed back into it.  In every state,
\* an id returned by createFolder or copyItem has not been returned by
\* any listing, is not the item (the source) of any copyItem or
\* createFolder call, is not the folder of any listing, and is not the
\* folder argument of any activation of processFolder or of
\* copyFolderContents, finished or on the stack; a created id occurs
\* only as the parent of later creations and as the destination of
\* copyFolderContents.  This holds although the walker puts its replicas
\* into the folder whose later pages it has still to request.
ListedIdSet == { file.id : file \in ListedFiles }

====
